---------------------------- MODULE Spec2Model ----------------------------
(***************************************************************************)
(* A model of the HTTP serving layer of ord (src/subcommand/server.rs):    *)
(* the Background Synchronizer thread started by Server::run, the request  *)
(* handlers with the index facade calls they make, the mapping of          *)
(* ServerError to responses, and the BlockQuery parser.                    *)
(*                                                                         *)
(* Text is modelled as a sequence of fragments: a raw path segment is a    *)
(* sequence of one-character strings, a message is the concatenation of    *)
(* its literal fragments and of the characters of its formatted values.    *)
(* A decimal number too wide for the checker's integers is kept as its     *)
(* canonical numeral, a sequence of digit characters without leading zeros.*)
(***************************************************************************)
EXTENDS Integers, Sequences, FiniteSets

VARIABLES
    runPc,        \* position of Server::run: "init" before the call, "serving" after
    syncPc,       \* Background Synchronizer: "off", "update" or "sleep"
    syncLast,     \* outcome of the synchronizer's latest update call
    tip,          \* number of blocks of the chain the node reports
    forked,       \* the node's chain no longer extends the indexed blocks
    blockCount,   \* number of blocks the index holds
    reorged,      \* the index's reorg flag
    indexSats,    \* the index was created with per-sat tracking (--index-sats)
    reqs,         \* request slots: the requests the runtime is handling
    rawQuery,     \* BlockQuery parser: the input segment
    parsed,       \* BlockQuery parser: the result of from_str, tag "None" before the call
    flags,        \* the Server arguments: http, https, http_port, https_port
    tasks,        \* the listener tasks, "http" and "https"
    handle,       \* the shutdown handle given to run: "live" or "shutdown"
    runResult,    \* what Server::run returned, "none" while it has not
    acme          \* the ACME event-draining task spawned by Server::acceptor

indexVars == <<blockCount, reorged, indexSats>>
chainVars == <<tip, forked>>
syncVars  == <<syncPc, syncLast>>
parseVars == <<rawQuery, parsed>>
listenVars == <<flags, tasks, handle, runResult, acme>>
vars == <<runPc, syncPc, syncLast, tip, forked, blockCount, reorged, indexSats, reqs,
          rawQuery, parsed, flags, tasks, handle, runResult, acme>>

---------------------------------------------------------------------------
(* Bounds of the model.                                                    *)

\* Number of request slots of the concurrent block-count scenario.
NumRequests == 2
\* The chain grows to at most this many blocks.
MaxBlocks == 2
\* Largest number of items (outputs, transactions, inputs) of a looked-up entity.
MaxItems == 2
\* The number of events the ACME stream delivers.
MaxEvents == 2

---------------------------------------------------------------------------
(* Text and numerals.                                                      *)

Rep(c, n) == [i \in 1..n |-> c]

DecDigits == <<"0", "1", "2", "3", "4", "5", "6", "7", "8", "9">>
DigitChars == {DecDigits[i] : i \in 1..10}
HexLetters == {"a", "b", "c", "d", "e", "f", "A", "B", "C", "D", "E", "F"}
HexChars == DigitChars \cup HexLetters

DigitVal(c) == (CHOOSE i \in 1..10 : DecDigits[i] = c) - 1

IsDigits(s) == \A i \in 1..Len(s) : s[i] \in DigitChars
IsHex(s) == \A i \in 1..Len(s) : s[i] \in HexChars

\* u64::to_string of a small number: its decimal digits, most significant first.
RECURSIVE to_string(_)
to_string(n) ==
    IF n < 10 THEN <<DecDigits[n + 1]>>
    ELSE to_string(n \div 10) \o <<DecDigits[(n % 10) + 1]>>

\* The canonical numeral of a digit string: leading zeros dropped, "0" for zero.
RECURSIVE StripZeros(_)
StripZeros(s) ==
    IF Len(s) > 1 /\ Head(s) = "0" THEN StripZeros(Tail(s)) ELSE s

\* Order of two canonical numerals: -1, 0 or 1.
RECURSIVE CmpSameLen(_, _)
CmpSameLen(a, b) ==
    IF a = <<>> THEN 0
    ELSE IF DigitVal(Head(a)) < DigitVal(Head(b)) THEN -1
    ELSE IF DigitVal(Head(a)) > DigitVal(Head(b)) THEN 1
    ELSE CmpSameLen(Tail(a), Tail(b))

CmpNum(a, b) ==
    IF Len(a) < Len(b) THEN -1
    ELSE IF Len(a) > Len(b) THEN 1
    ELSE CmpSameLen(a, b)

\* u64::MAX = 18446744073709551615
U64MaxNumeral ==
    <<"1","8","4","4","6","7","4","4","0","7","3","7","0","9","5","5","1","6","1","5">>

Ok(v) == [ok |-> TRUE, val |-> v]
Err(m) == [ok |-> FALSE, msg |-> m]
\* Option<T>
None == [some |-> FALSE, val |-> <<>>]
Some(v) == [some |-> TRUE, val |-> v]

\* str::parse::<u64>: an optional "+", then one or more decimal digits, the value
\* at most u64::MAX.
ParseU64(s) ==
    IF s = <<>> THEN Err(<<"cannot parse integer from empty string">>)
    ELSE LET digits == IF Head(s) = "+" THEN Tail(s) ELSE s IN
         IF digits = <<>> \/ ~IsDigits(digits)
         THEN Err(<<"invalid digit found in string">>)
         ELSE LET n == StripZeros(digits) IN
              IF CmpNum(n, U64MaxNumeral) = 1
              THEN Err(<<"number too large to fit in target type">>)
              ELSE Ok(n)

LowerOf(c) ==
    CASE c = "A" -> "a" [] c = "B" -> "b" [] c = "C" -> "c"
      [] c = "D" -> "d" [] c = "E" -> "e" [] c = "F" -> "f"
      [] OTHER -> c

\* Length of a block hash or transaction id written in hexadecimal.
HASH_LEN == 64

\* BlockHash::from_str: 64 hexadecimal digits; the hash displays in lower case.

ParseBlockHash(s) ==
    IF Len(s) = HASH_LEN /\ IsHex(s)
    THEN Ok([i \in 1..Len(s) |-> LowerOf(s[i])])
    ELSE Err(<<"bad hex string length or character">>)

---------------------------------------------------------------------------
(* BlockQuery::from_str                                                    *)

Height(h) == [tag |-> "Height", val |-> h]
Hash(h) == [tag |-> "Hash", val |-> h]
ParseError(m) == [tag |-> "Err", msg |-> m]

\* A from_str that takes every string of digits for a height, whatever its length.
BlockQueryFromStr_digits_first(s) ==
    LET hash == ParseBlockHash(s)
        height == ParseU64(s)
    IN IF height.ok THEN Height(height.val)
       ELSE IF hash.ok THEN Hash(hash.val)
       ELSE ParseError(hash.msg)

BlockQueryFromStr(s) ==
    IF Len(s) = HASH_LEN
    THEN LET hash == ParseBlockHash(s) IN
         IF hash.ok THEN Hash(hash.val) ELSE ParseError(hash.msg)
    ELSE LET height == ParseU64(s) IN
         IF height.ok THEN Height(height.val) ELSE ParseError(height.msg)

---------------------------------------------------------------------------
(* ServerError and its mapping to a response.                              *)

Internal(cause) == [tag |-> "Internal", msg |-> cause]
NotFound(message) == [tag |-> "NotFound", msg |-> message]
BadRequest(message) == [tag |-> "BadRequest", msg |-> message]
\* The success values of the handlers: a rendered view, or a redirect.
OkView(view) == [tag |-> "Ok", msg |-> view]
RedirectTo(location) == [tag |-> "Redirect", msg |-> location]
\* A response the handler built itself: its own headers and its body.
OkResponse(headers, body) == [tag |-> "Response", msg |-> body, headers |-> headers]
\* The request never reached a handler: the path extractor rejected it.
Rejected(message) == [tag |-> "Rejected", msg |-> message]

NoLocation == <<>>
\* The headers a handler sets itself, as pairs of name and value.
NoHeaders == <<>>
Response(status, body, location) ==
    [status |-> status, body |-> body, location |-> location, headers |-> NoHeaders]

\* StatusCode::canonical_reason
CanonicalReason(status) ==
    CASE status = 200 -> <<"OK">>
      [] status = 500 -> <<"Internal Server Error">>
      [] OTHER -> <<>>

\* An into_response that returns the cause of an internal error to the client.
into_response_leaks_cause(error) ==
    CASE error.tag = "Internal" -> Response(500, error.msg, NoLocation)
      [] error.tag = "NotFound" -> Response(404, error.msg, NoLocation)
      [] error.tag = "BadRequest" -> Response(400, error.msg, NoLocation)

\* An into_response that answers a missing entity with 400 instead of 404.
into_response_not_found_as_400(error) ==
    CASE error.tag = "Internal" -> Response(500, CanonicalReason(500), NoLocation)
      [] error.tag = "NotFound" -> Response(400, error.msg, NoLocation)
      [] error.tag = "BadRequest" -> Response(400, error.msg, NoLocation)

\* ServerError::into_response
into_response(error) ==
    CASE error.tag = "Internal" -> Response(500, CanonicalReason(500), NoLocation)
      [] error.tag = "NotFound" -> Response(404, error.msg, NoLocation)
      [] error.tag = "BadRequest" -> Response(400, error.msg, NoLocation)

ServerErrorTags == {"Internal", "NotFound", "BadRequest"}

\* A Respond that sends a redirect as 302 Found.
Respond_redirect_found(out) ==
    CASE out.tag \in {"Internal", "NotFound", "BadRequest"} -> into_response(out)
      [] out.tag = "Rejected" ->
            Response(400, <<"Invalid URL: ">> \o out.msg, NoLocation)
      [] out.tag = "Redirect" -> Response(302, <<>>, out.msg)
      [] out.tag = "Ok" -> Response(200, out.msg, NoLocation)
      [] out.tag = "Response" ->
            [Response(200, out.msg, NoLocation) EXCEPT !.headers = out.headers]

\* What the dispatcher sends for a handler's result: the mapped error, the
\* rendered value with 200, a redirect with 303 See Other and its Location, and
\* for a path the extractor rejected 400 with "Invalid URL: " and the reason.
Respond(out) ==
    CASE out.tag \in ServerErrorTags -> into_response(out)
      [] out.tag = "Rejected" ->
            Response(400, <<"Invalid URL: ">> \o out.msg, NoLocation)
      [] out.tag = "Redirect" -> Response(303, <<>>, out.msg)
      [] out.tag = "Ok" -> Response(200, out.msg, NoLocation)
      [] out.tag = "Response" ->
            [Response(200, out.msg, NoLocation) EXCEPT !.headers = out.headers]

---------------------------------------------------------------------------
(* The index facade.  A call either fails (the storage or the node cannot  *)
(* be read) or answers from the index; what a call answers is drawn per    *)
(* call, except for the block count, the height, the reorg flag and the    *)
(* per-sat tracking flag, which are read from the index state.            *)
(* An oracle o gives the k-th call of a handler its result o.res[k]        *)
(* ("err", "none" or "some"), the failure its text o.e, and a found block  *)
(* or transaction its numbers of items o.n and o.m.                        *)

ErrorDetails == {"storage unreadable", "rpc timeout"}
CallResults == {"err", "none", "some"}

\* What the k-th call of a handler answers: "err" when it fails, else "some" for
\* a value and "none" for no value.  Calls that return no Option always answer
\* a value; the height is missing until the genesis block is indexed, the list
\* of rare sats is missing unless the index tracks sats.
Answer(call, idx, o, k) ==
    IF k \notin DOMAIN o.res THEN "some"
    ELSE IF o.res[k] = "err" THEN "err"
    ELSE CASE call = "height" -> IF idx.blockCount = 0 THEN "none" ELSE "some"
           [] call = "rare_sat_satpoints" -> IF idx.indexSats THEN "some" ELSE "none"
           [] call \in {"block_count", "has_satoshi_index", "blocks", "blocktime",
                        "get_latest_inscriptions", "get_genesis_height",
                        "is_reorged"} -> "some"
           [] OTHER -> o.res[k]

Done(calls, out) == [calls |-> calls, out |-> out]
\* The calls made so far, then what the rest of the handler does.
After(calls, rest) == [calls |-> calls \o rest.calls, out |-> rest.out]
Failed(d) == d.out.tag \in ServerErrorTags

\* An index_height that reports a missing height as NotFound.
index_height_not_found(idx, o, k) ==
    LET height == Answer("height", idx, o, k) IN
    IF height = "err"
    THEN Done(<<"height">>,
              Internal(<<"failed to retrieve height from index: ", o.e>>))
    ELSE IF height = "none"
    THEN Done(<<"height">>, NotFound(<<"index has not indexed genesis block">>))
    ELSE Done(<<"height">>, OkView(to_string(idx.blockCount - 1)))

\* Server::index_height: the height is None until the genesis block is indexed.
index_height(idx, o, k) ==
    LET height == Answer("height", idx, o, k) IN
    IF height = "err"
    THEN Done(<<"height">>,
              Internal(<<"failed to retrieve height from index: ", o.e>>))
    ELSE IF height = "none"
    THEN Done(<<"height">>, Internal(<<"index has not indexed genesis block">>))
    ELSE Done(<<"height">>, OkView(to_string(idx.blockCount - 1)))

\* PageContent::page(chain, index.has_satoshi_index().map_err(Internal)?): the
\* last step of every page handler.
Page(view, idx, o, k) ==
    IF o.res[k] = "err"
    THEN Done(<<"has_satoshi_index">>, Internal(<<o.e>>))
    ELSE Done(<<"has_satoshi_index">>, OkView(view))

---------------------------------------------------------------------------
(* The handlers.  Each gives the facade calls it makes, in order, and its  *)
(* ServerResult.  idx is the index state the calls read, o the oracle.     *)

\* nth(i) of a list of n items finds an item.
HasNth(i, n) == CmpNum(i, to_string(n)) = -1

clock(idx, o) ==
    LET h == index_height(idx, o, 1) IN
    IF Failed(h) THEN h
    ELSE Done(h.calls, OkView(<<"ClockSvg ">> \o h.out.msg))

sat(s, idx, o) ==
    IF o.res[1] = "err"
    THEN Done(<<"rare_sat_satpoint">>,
              Internal(<<"failed to satpoint for sat ">> \o s \o <<" from index: ", o.e>>))
    ELSE IF o.res[2] = "err"
    THEN Done(<<"rare_sat_satpoint", "blocktime">>,
              Internal(<<"failed to retrieve blocktime from index: ", o.e>>))
    ELSE IF o.res[3] = "err"
    THEN Done(<<"rare_sat_satpoint", "blocktime", "get_inscription_by_sat">>,
              Internal(<<"failed to retrieve inscription for sat ">> \o s
                       \o <<" from index: ", o.e>>))
    ELSE After(<<"rare_sat_satpoint", "blocktime", "get_inscription_by_sat">>,
               Page(<<"SatHtml ">> \o s, idx, o, 4))

ordinal(s) == Done(<<>>, RedirectTo(<<"/sat/">> \o s))

OutPointText(outpoint) == outpoint.txid \o <<":">> \o outpoint.vout

\* An output that fails with an internal error when the transaction has no
\* output of the requested number.
output_vout_internal(outpoint, idx, o) ==
    LET unknown == NotFound(<<"output ">> \o OutPointText(outpoint) \o <<" unknown">>) IN
    IF o.res[1] = "err" THEN Done(<<"get_transaction">>, Internal(<<o.e>>))
    ELSE IF o.res[1] = "none" THEN Done(<<"get_transaction">>, unknown)
    ELSE IF ~HasNth(outpoint.vout, o.n)
    THEN Done(<<"get_transaction">>, Internal(<<"index out of bounds">>))
    ELSE IF o.res[2] = "err"
    THEN Done(<<"get_transaction", "has_satoshi_index">>, Internal(<<o.e>>))
    ELSE IF idx.indexSats
    THEN IF o.res[3] = "err"
         THEN Done(<<"get_transaction", "has_satoshi_index", "list">>,
                   Internal(<<o.e>>))
         ELSE IF o.res[3] = "none"
         THEN Done(<<"get_transaction", "has_satoshi_index", "list">>, unknown)
         ELSE After(<<"get_transaction", "has_satoshi_index", "list">>,
                    Page(<<"OutputHtml ">> \o OutPointText(outpoint), idx, o, 4))
    ELSE After(<<"get_transaction", "has_satoshi_index">>,
               Page(<<"OutputHtml ">> \o OutPointText(outpoint), idx, o, 3))

output(outpoint, idx, o) ==
    LET unknown == NotFound(<<"output ">> \o OutPointText(outpoint) \o <<" unknown">>) IN
    IF o.res[1] = "err" THEN Done(<<"get_transaction">>, Internal(<<o.e>>))
    ELSE IF o.res[1] = "none" THEN Done(<<"get_transaction">>, unknown)
    ELSE IF ~HasNth(outpoint.vout, o.n) THEN Done(<<"get_transaction">>, unknown)
    ELSE IF o.res[2] = "err"
    THEN Done(<<"get_transaction", "has_satoshi_index">>, Internal(<<o.e>>))
    ELSE IF idx.indexSats
    THEN IF o.res[3] = "err"
         THEN Done(<<"get_transaction", "has_satoshi_index", "list">>,
                   Internal(<<o.e>>))
         ELSE IF o.res[3] = "none"
         THEN Done(<<"get_transaction", "has_satoshi_index", "list">>, unknown)
         ELSE After(<<"get_transaction", "has_satoshi_index", "list">>,
                    Page(<<"OutputHtml ">> \o OutPointText(outpoint), idx, o, 4))
    ELSE After(<<"get_transaction", "has_satoshi_index">>,
               Page(<<"OutputHtml ">> \o OutPointText(outpoint), idx, o, 3))

\* A range that asks the index for the tracking flag before it compares.
range_lookup_first(start, end, idx, o) ==
    IF o.res[1] = "err" THEN Done(<<"has_satoshi_index">>, Internal(<<o.e>>))
    ELSE IF CmpNum(start, end) = 0
    THEN Done(<<"has_satoshi_index">>, BadRequest(<<"empty range">>))
    ELSE IF CmpNum(start, end) = 1
    THEN Done(<<"has_satoshi_index">>,
              BadRequest(<<"range start greater than range end">>))
    ELSE Done(<<"has_satoshi_index">>,
              OkView(<<"RangeHtml ">> \o start \o <<" ">> \o end))

\* A range that puts a reversed pair in order instead of refusing it.
range_normalizes(start, end, idx, o) ==
    IF CmpNum(start, end) = 0 THEN Done(<<>>, BadRequest(<<"empty range">>))
    ELSE IF CmpNum(start, end) = 1
    THEN Page(<<"RangeHtml ">> \o end \o <<" ">> \o start, idx, o, 1)
    ELSE Page(<<"RangeHtml ">> \o start \o <<" ">> \o end, idx, o, 1)

range(start, end, idx, o) ==
    IF CmpNum(start, end) = 0 THEN Done(<<>>, BadRequest(<<"empty range">>))
    ELSE IF CmpNum(start, end) = 1
    THEN Done(<<>>, BadRequest(<<"range start greater than range end">>))
    ELSE Page(<<"RangeHtml ">> \o start \o <<" ">> \o end, idx, o, 1)

\* The grave accents around --index-sats are written as the fragment "GRAVE".
RareTxtDisabled ==
    <<"tracking rare sats requires index created with ", "GRAVE", "--index-sats",
      "GRAVE", " flag">>

\* A rare_txt that reports the missing listing as an internal error.
rare_txt_disabled_as_internal(idx, o) ==
    LET satpoints == Answer("rare_sat_satpoints", idx, o, 1) IN
    IF satpoints = "err"
    THEN Done(<<"rare_sat_satpoints">>,
              Internal(<<"error getting rare sat satpoints: ", o.e>>))
    ELSE IF satpoints = "none"
    THEN Done(<<"rare_sat_satpoints">>, Internal(RareTxtDisabled))
    ELSE Done(<<"rare_sat_satpoints">>, OkView(<<"RareTxt">>))

\* A rare_txt that answers an empty listing when the index does not track sats.
rare_txt_empty_when_disabled(idx, o) ==
    LET satpoints == Answer("rare_sat_satpoints", idx, o, 1) IN
    IF satpoints = "err"
    THEN Done(<<"rare_sat_satpoints">>,
              Internal(<<"error getting rare sat satpoints: ", o.e>>))
    ELSE Done(<<"rare_sat_satpoints">>, OkView(<<"RareTxt">>))

rare_txt(idx, o) ==
    LET satpoints == Answer("rare_sat_satpoints", idx, o, 1) IN
    IF satpoints = "err"
    THEN Done(<<"rare_sat_satpoints">>,
              Internal(<<"error getting rare sat satpoints: ", o.e>>))
    ELSE IF satpoints = "none"
    THEN Done(<<"rare_sat_satpoints">>, NotFound(RareTxtDisabled))
    ELSE Done(<<"rare_sat_satpoints">>, OkView(<<"RareTxt">>))

\* The limits Server::home passes to the index.
BLOCKS_LIMIT == 100
INSCRIPTIONS_LIMIT == 8

\* Index::blocks(limit): the latest blocks of the index, newest first, at most
\* limit of them, each with its height and its hash.
IndexBlocks(idx, limit) ==
    [i \in 1..(IF idx.blockCount < limit THEN idx.blockCount ELSE limit) |->
        [height |-> idx.blockCount - i,
         hash |-> <<"hash of block ">> \o to_string(idx.blockCount - i)]]

\* A HomeHtml::new that takes its status height from the oldest listed block.
HomeHtml_new_last_from_oldest(blocks, inscriptions) ==
    [starting_sat |-> IF blocks = <<>> THEN None
                      ELSE Some(<<"starting sat of height ">> \o to_string(blocks[1].height)),
     last |-> IF blocks = <<>> THEN 0 ELSE blocks[Len(blocks)].height,
     blocks |-> [i \in 1..Len(blocks) |-> blocks[i].hash],
     inscriptions |-> inscriptions]

\* HomeHtml::new
HomeHtml_new(blocks, inscriptions) ==
    [starting_sat |-> IF blocks = <<>> THEN None
                      ELSE Some(<<"starting sat of height ">> \o to_string(blocks[1].height)),
     last |-> IF blocks = <<>> THEN 0 ELSE blocks[1].height,
     blocks |-> [i \in 1..Len(blocks) |-> blocks[i].hash],
     inscriptions |-> inscriptions]

\* The page of a HomeHtml: the latest inscriptions, the status with the block
\* height last, and the list of blocks counted down from last.
HomeHtml_display(self) ==
    LET n == Len(self.blocks)
        \* the list items of the blocks lo..hi
        items[lo \in 1..(n + 1), hi \in 0..n] ==
            IF lo > hi THEN <<>>
            ELSE IF lo = hi THEN <<"<li>">> \o self.blocks[lo]
            ELSE items[lo, (lo + hi) \div 2] \o items[(lo + hi) \div 2 + 1, hi]
    IN <<"HomeHtml inscriptions=">> \o to_string(Len(self.inscriptions))
       \o <<" starting_sat=">>
       \o (IF self.starting_sat.some THEN self.starting_sat.val ELSE <<"None">>)
       \o <<" block=">> \o to_string(self.last)
       \o <<" <ol start=">> \o to_string(self.last) \o <<" reversed>">>
       \o items[1, n]

\* The index holds o.n inscriptions.
home(idx, o) ==
    IF o.res[1] = "err"
    THEN Done(<<"blocks">>, Internal(<<"error getting blocks: ", o.e>>))
    ELSE IF o.res[2] = "err"
    THEN Done(<<"blocks", "get_latest_inscriptions">>,
              Internal(<<"error getting inscriptions: ", o.e>>))
    ELSE After(<<"blocks", "get_latest_inscriptions">>,
               Page(HomeHtml_display(
                        HomeHtml_new(
                            IndexBlocks(idx, BLOCKS_LIMIT),
                            [i \in 1..(IF o.n < INSCRIPTIONS_LIMIT THEN o.n
                                        ELSE INSCRIPTIONS_LIMIT) |-> i])),
                    idx, o, 3))

install_script ==
    Done(<<>>, RedirectTo(<<"https://raw.githubusercontent.com/casey/ord/master/install.sh">>))

\* The end of Server::block: the index height, then the page.
BlockPage(query, calls, idx, o, k) ==
    LET h == index_height(idx, o, k) IN
    IF Failed(h) THEN After(calls, h)
    ELSE After(calls \o h.calls, Page(<<"BlockHtml ">> \o query.val, idx, o, k + 1))

\* A block that reports a failed lookup by height as a missing block.
block_error_as_not_found(query, idx, o) ==
    IF query.tag = "Height"
    THEN IF o.res[1] = "err"
         THEN Done(<<"get_block_by_height">>,
                   NotFound(<<"block at height ">> \o query.val \o <<" unknown">>))
         ELSE IF o.res[1] = "none"
         THEN Done(<<"get_block_by_height">>,
                   NotFound(<<"block at height ">> \o query.val \o <<" unknown">>))
         ELSE BlockPage(query, <<"get_block_by_height">>, idx, o, 2)
    ELSE IF o.res[1] = "err"
         THEN Done(<<"block_header_info">>,
                   Internal(<<"error serving request for block with hash ">>
                            \o query.val \o <<": ", o.e>>))
         ELSE IF o.res[1] = "none"
         THEN Done(<<"block_header_info">>,
                   NotFound(<<"block ">> \o query.val \o <<" unknown">>))
         ELSE IF o.res[2] = "err"
         THEN Done(<<"block_header_info", "get_block_by_hash">>,
                   Internal(<<"error serving request for block with hash ">>
                            \o query.val \o <<": ", o.e>>))
         ELSE IF o.res[2] = "none"
         THEN Done(<<"block_header_info", "get_block_by_hash">>,
                   NotFound(<<"block ">> \o query.val \o <<" unknown">>))
         ELSE BlockPage(query, <<"block_header_info", "get_block_by_hash">>, idx, o, 3)

block(query, idx, o) ==
    IF query.tag = "Height"
    THEN IF o.res[1] = "err"
         THEN Done(<<"get_block_by_height">>,
                   Internal(<<"error serving request for block with height ">>
                            \o query.val \o <<": ", o.e>>))
         ELSE IF o.res[1] = "none"
         THEN Done(<<"get_block_by_height">>,
                   NotFound(<<"block at height ">> \o query.val \o <<" unknown">>))
         ELSE BlockPage(query, <<"get_block_by_height">>, idx, o, 2)
    ELSE IF o.res[1] = "err"
         THEN Done(<<"block_header_info">>,
                   Internal(<<"error serving request for block with hash ">>
                            \o query.val \o <<": ", o.e>>))
         ELSE IF o.res[1] = "none"
         THEN Done(<<"block_header_info">>,
                   NotFound(<<"block ">> \o query.val \o <<" unknown">>))
         ELSE IF o.res[2] = "err"
         THEN Done(<<"block_header_info", "get_block_by_hash">>,
                   Internal(<<"error serving request for block with hash ">>
                            \o query.val \o <<": ", o.e>>))
         ELSE IF o.res[2] = "none"
         THEN Done(<<"block_header_info", "get_block_by_hash">>,
                   NotFound(<<"block ">> \o query.val \o <<" unknown">>))
         ELSE BlockPage(query, <<"block_header_info", "get_block_by_hash">>, idx, o, 3)

transaction(txid, idx, o) ==
    IF o.res[1] = "err"
    THEN Done(<<"get_inscription_by_inscription_id">>,
              Internal(<<"failed to retrieve inscription from txid ">> \o txid
                       \o <<" from index: ", o.e>>))
    ELSE IF o.res[2] = "err"
    THEN Done(<<"get_inscription_by_inscription_id", "get_transaction">>,
              Internal(<<"error serving request for transaction ">> \o txid
                       \o <<": ", o.e>>))
    ELSE IF o.res[2] = "none"
    THEN Done(<<"get_inscription_by_inscription_id", "get_transaction">>,
              NotFound(<<"transaction ">> \o txid \o <<" unknown">>))
    ELSE After(<<"get_inscription_by_inscription_id", "get_transaction">>,
               Page(<<"TransactionHtml ">> \o txid, idx, o, 3))

ReorgMessage == <<"reorg detected, please rebuild the database.">>

\* A status that reports a flagged reorg as a failure.
status_reorg_as_error(idx) ==
    IF idx.reorged
    THEN Done(<<"is_reorged">>, Internal(ReorgMessage))
    ELSE Done(<<"is_reorged">>, OkView(CanonicalReason(200)))

status(idx) ==
    IF idx.reorged
    THEN Done(<<"is_reorged">>, OkView(ReorgMessage))
    ELSE Done(<<"is_reorged">>, OkView(CanonicalReason(200)))

\* The lexical shapes of Server::search_inner: HASH is ^[[:xdigit:]]{64}$ and
\* OUTPOINT is ^[[:xdigit:]]{64}:\d+$.
IsSpace(c) == c \in {" ", "\t", "\n"}

RECURSIVE TrimStart(_)
TrimStart(s) == IF s # <<>> /\ IsSpace(Head(s)) THEN TrimStart(Tail(s)) ELSE s

RECURSIVE TrimEnd(_)
TrimEnd(s) ==
    IF s # <<>> /\ IsSpace(s[Len(s)]) THEN TrimEnd(SubSeq(s, 1, Len(s) - 1)) ELSE s

Trim(s) == TrimEnd(TrimStart(s))

HashMatch(s) == Len(s) = HASH_LEN /\ IsHex(s)

\* The class \d of the regex crate holds every Unicode decimal digit; the
\* fragment "U+0663" stands for one that is not ASCII (ARABIC-INDIC DIGIT THREE).
RegexDigits == DigitChars \cup {"U+0663"}

OutpointMatch(s) ==
    /\ Len(s) > HASH_LEN + 1
    /\ IsHex(SubSeq(s, 1, HASH_LEN))
    /\ s[HASH_LEN + 1] = ":"
    /\ \A i \in (HASH_LEN + 2)..Len(s) : s[i] \in RegexDigits

\* A search that classifies the query as it came, without trimming it.
search_inner_untrimmed(q, idx, o) ==
    LET t == q IN
    IF HashMatch(t)
    THEN IF o.res[1] = "err"
         THEN Done(<<"block_header">>,
                   Internal(<<"failed to retrieve block ">> \o t
                            \o <<" from index: ", o.e>>))
         ELSE IF o.res[1] = "some"
         THEN Done(<<"block_header">>, RedirectTo(<<"/block/">> \o t))
         ELSE Done(<<"block_header">>, RedirectTo(<<"/tx/">> \o t))
    ELSE IF OutpointMatch(t) THEN Done(<<>>, RedirectTo(<<"/output/">> \o t))
    ELSE Done(<<>>, RedirectTo(<<"/sat/">> \o t))

\* A search_inner that asks the index for a block before it looks at the shape.
search_inner_probes_first(q, idx, o) ==
    LET t == Trim(q) IN
    IF o.res[1] = "err"
    THEN Done(<<"block_header">>,
              Internal(<<"failed to retrieve block ">> \o t \o <<" from index: ", o.e>>))
    ELSE IF HashMatch(t)
    THEN IF o.res[1] = "some"
         THEN Done(<<"block_header">>, RedirectTo(<<"/block/">> \o t))
         ELSE Done(<<"block_header">>, RedirectTo(<<"/tx/">> \o t))
    ELSE IF OutpointMatch(t) THEN Done(<<"block_header">>, RedirectTo(<<"/output/">> \o t))
    ELSE Done(<<"block_header">>, RedirectTo(<<"/sat/">> \o t))

search_inner(q, idx, o) ==
    LET t == Trim(q) IN
    IF HashMatch(t)
    THEN IF o.res[1] = "err"
         THEN Done(<<"block_header">>,
                   Internal(<<"failed to retrieve block ">> \o t
                            \o <<" from index: ", o.e>>))
         ELSE IF o.res[1] = "some"
         THEN Done(<<"block_header">>, RedirectTo(<<"/block/">> \o t))
         ELSE Done(<<"block_header">>, RedirectTo(<<"/tx/">> \o t))
    ELSE IF OutpointMatch(t) THEN Done(<<>>, RedirectTo(<<"/output/">> \o t))
    ELSE Done(<<>>, RedirectTo(<<"/sat/">> \o t))

search(query, idx, o) == search_inner(query, idx, o)

\* GET /search?query=...: the query is the value of the parameter "query".
search_by_query(query, idx, o) == search(query, idx, o)

\* GET /search/{query}: the query is the path segment.
search_by_path(query, idx, o) == search(query, idx, o)

\* The files of the embedded asset folder that the model knows.
StaticAssets == {<<"index.css">>, <<"favicon.png">>}

static_asset(path) ==
    LET stripped == IF path # <<>> /\ Head(path) = "/" THEN Tail(path) ELSE path IN
    IF stripped \in StaticAssets
    THEN Done(<<>>, OkView(<<"asset ">> \o stripped))
    ELSE Done(<<>>, NotFound(<<"asset ">> \o path \o <<" unknown">>))

favicon == static_asset(<<"/", "favicon.png">>)

\* A block_count that refuses to answer once a reorg is flagged.
block_count_refuses_on_reorg(idx, o) ==
    IF idx.reorged
    THEN Done(<<"is_reorged">>, Internal(<<"reorg detected">>))
    ELSE IF o.res[1] = "err"
    THEN Done(<<"block_count">>,
              Internal(<<"failed to retrieve block count from index: ", o.e>>))
    ELSE Done(<<"block_count">>, OkView(to_string(idx.blockCount)))

\* A block_count that answers with the height of the last block.
block_count_returns_height(idx, o) ==
    IF o.res[1] = "err"
    THEN Done(<<"block_count">>,
              Internal(<<"failed to retrieve block count from index: ", o.e>>))
    ELSE Done(<<"block_count">>,
              OkView(to_string(IF idx.blockCount = 0 THEN 0 ELSE idx.blockCount - 1)))

\* A block_count that brings the index up to date before it reads the count.
block_count_updates_first(idx, o) ==
    IF o.res[1] = "err"
    THEN Done(<<"update", "block_count">>,
              Internal(<<"failed to retrieve block count from index: ", o.e>>))
    ELSE Done(<<"update", "block_count">>, OkView(to_string(idx.blockCount)))

block_count(idx, o) ==
    IF o.res[1] = "err"
    THEN Done(<<"block_count">>,
              Internal(<<"failed to retrieve block count from index: ", o.e>>))
    ELSE Done(<<"block_count">>, OkView(to_string(idx.blockCount)))

InputText(path) ==
    <<"/">> \o path[1] \o <<"/">> \o path[2] \o <<"/">> \o path[3]

\* The found block has o.n transactions, each of them o.m inputs.
input(path, idx, o) ==
    LET not_found == NotFound(<<"input ">> \o InputText(path) \o <<" unknown">>) IN
    IF o.res[1] = "err" THEN Done(<<"get_block_by_height">>, Internal(<<o.e>>))
    ELSE IF o.res[1] = "none" THEN Done(<<"get_block_by_height">>, not_found)
    ELSE IF ~HasNth(path[2], o.n) THEN Done(<<"get_block_by_height">>, not_found)
    ELSE IF ~HasNth(path[3], o.m) THEN Done(<<"get_block_by_height">>, not_found)
    ELSE After(<<"get_block_by_height">>,
               Page(<<"InputHtml ">> \o InputText(path), idx, o, 2))

faq == Done(<<>>, RedirectTo(<<"https://docs.ordinals.com/faq/">>))

bounties == Done(<<>>, RedirectTo(<<"https://docs.ordinals.com/bounty/">>))

\* An inscription: its content-type label and its content bytes, each optional.
Inscriptions ==
    [content_type : {None, Some(<<"text/plain">>)},
     content : {None, Some(<<>>), Some(<<"\\x01", "\\x02", "\\x03">>)}]

\* A content_response that has no content type to fall back on.
content_response_requires_type(inscription) ==
    IF ~inscription.content.some \/ ~inscription.content_type.some THEN None
    ELSE Some([content_type |-> inscription.content_type.val,
               content |-> inscription.content.val])

\* Server::content_response
content_response(inscription) ==
    IF ~inscription.content.some THEN None
    ELSE IF inscription.content_type.some
    THEN Some([content_type |-> inscription.content_type.val,
               content |-> inscription.content.val])
    ELSE Some([content_type |-> <<"application/octet-stream">>,
               content |-> inscription.content.val])

ContentSecurityPolicy == <<"default-src 'none' 'unsafe-eval' 'unsafe-inline'">>

\* The found inscription is o.insc.
content(inscription_id, idx, o) ==
    IF o.res[1] = "err"
    THEN Done(<<"get_inscription_by_inscription_id">>,
              Internal(<<"failed to retrieve inscription with inscription id ">>
                       \o inscription_id \o <<" from index: ", o.e>>))
    ELSE IF o.res[1] = "none"
    THEN Done(<<"get_inscription_by_inscription_id">>,
              NotFound(<<"transaction ">> \o inscription_id \o <<" has no inscription">>))
    ELSE IF ~content_response(o.insc).some
    THEN Done(<<"get_inscription_by_inscription_id">>,
              NotFound(<<"inscription ">> \o inscription_id \o <<" has no content">>))
    ELSE Done(<<"get_inscription_by_inscription_id">>,
              OkResponse(<< <<"content-type", content_response(o.insc).val.content_type>>,
                            <<"content-security-policy", ContentSecurityPolicy>> >>,
                         content_response(o.insc).val.content))

inscription(inscription_id, idx, o) ==
    IF o.res[1] = "err"
    THEN Done(<<"get_inscription_by_inscription_id">>,
              Internal(<<"failed to retrieve inscription with inscription id ">>
                       \o inscription_id \o <<" from index: ", o.e>>))
    ELSE IF o.res[1] = "none"
    THEN Done(<<"get_inscription_by_inscription_id">>,
              NotFound(<<"transaction ">> \o inscription_id \o <<" has no inscription">>))
    ELSE IF o.res[2] = "err"
    THEN Done(<<"get_inscription_by_inscription_id", "get_genesis_height">>,
              Internal(<<"failed to retrieve height for inscriptiom with inscription id ">>
                       \o inscription_id \o <<" from index: ", o.e>>))
    ELSE After(<<"get_inscription_by_inscription_id", "get_genesis_height">>,
               Page(<<"InscriptionHtml ">> \o inscription_id, idx, o, 3))

inscriptions(idx, o) ==
    IF o.res[1] = "err"
    THEN Done(<<"get_latest_inscriptions">>,
              Internal(<<"error getting inscriptions: ", o.e>>))
    ELSE After(<<"get_latest_inscriptions">>, Page(<<"InscriptionsHtml">>, idx, o, 2))

---------------------------------------------------------------------------
(* The dispatcher: the routes, the extraction of the path parameters and   *)
(* the call of the handler.                                                *)

Routes ==
    {"home", "block_count", "block", "bounties", "clock", "content", "faq",
     "favicon", "input", "inscription", "inscriptions", "install_script",
     "ordinal", "output", "range", "rare_txt", "sat", "search_by_path",
     "search_by_query", "static_asset",
     "status", "transaction"}

\* Sat::SUPPLY = 2099999997690000; the last sat is one less.
SatSupplyNumeral ==
    <<"2","0","9","9","9","9","9","9","9","7","6","9","0","0","0","0">>

\* Sat::from_str on the integer notation.
ParseSat(s) ==
    LET n == ParseU64(s) IN
    IF ~n.ok THEN Err(n.msg)
    ELSE IF CmpNum(n.val, SatSupplyNumeral) # -1 THEN Err(<<"invalid sat">>)
    ELSE Ok(n.val)

\* Txid::from_str
ParseTxid(s) ==
    IF Len(s) = HASH_LEN /\ IsHex(s)
    THEN Ok([i \in 1..Len(s) |-> LowerOf(s[i])])
    ELSE Err(<<"error parsing TXID">>)

\* OutPoint::from_str of the two parts of "txid:vout".
ParseOutPoint(txid, vout) ==
    LET t == ParseTxid(txid) IN
    IF ~t.ok THEN Err(t.msg)
    ELSE IF vout = <<>> \/ ~IsDigits(vout) \/ vout # StripZeros(vout)
    THEN Err(<<"error parsing vout">>)
    ELSE Ok([txid |-> t.val, vout |-> vout])

\* The number of path segments each route takes.
Arity(route) ==
    CASE route \in {"block", "content", "inscription", "ordinal", "sat",
                    "search_by_path", "search_by_query", "transaction"} -> 1
      [] route \in {"output", "range", "static_asset"} -> 2
      [] route = "input" -> 3
      [] OTHER -> 0

\* Path extraction: Ok with the typed parameters, or Err with the reason of the
\* rejection.  /output takes its segment as the parts before and after the colon,
\* /static its path as an optional leading "/" and the file name.
Extract(route, segs) ==
    CASE route = "block" ->
            LET q == BlockQueryFromStr(segs[1]) IN
            IF q.tag = "Err" THEN Err(q.msg) ELSE Ok(q)
      [] route \in {"sat"} -> ParseSat(segs[1])
      [] route = "range" ->
            LET start == ParseSat(segs[1])
                end == ParseSat(segs[2])
            IN IF ~start.ok THEN Err(start.msg)
               ELSE IF ~end.ok THEN Err(end.msg)
               ELSE Ok(<<start.val, end.val>>)
      [] route = "output" -> ParseOutPoint(segs[1], segs[2])
      [] route \in {"transaction", "content", "inscription"} -> ParseTxid(segs[1])
      [] route = "input" ->
            IF \E i \in 1..3 : ~ParseU64(segs[i]).ok
            THEN Err(ParseU64(segs[CHOOSE i \in 1..3 : ~ParseU64(segs[i]).ok]).msg)
            ELSE Ok([i \in 1..3 |-> ParseU64(segs[i]).val])
      [] route = "static_asset" -> Ok(segs[1] \o segs[2])
      [] route \in {"ordinal", "search_by_path", "search_by_query"} -> Ok(segs[1])
      [] OTHER -> Ok(<<>>)

\* The handler of the route on its extracted parameters.
Handler(route, args, idx, o) ==
    CASE route = "home" -> home(idx, o)
      [] route = "block_count" -> block_count(idx, o)
      [] route = "block" -> block(args, idx, o)
      [] route = "bounties" -> bounties
      [] route = "clock" -> clock(idx, o)
      [] route = "content" -> content(args, idx, o)
      [] route = "faq" -> faq
      [] route = "favicon" -> favicon
      [] route = "input" -> input(args, idx, o)
      [] route = "inscription" -> inscription(args, idx, o)
      [] route = "inscriptions" -> inscriptions(idx, o)
      [] route = "install_script" -> install_script
      [] route = "ordinal" -> ordinal(args)
      [] route = "output" -> output(args, idx, o)
      [] route = "range" -> range(args[1], args[2], idx, o)
      [] route = "rare_txt" -> rare_txt(idx, o)
      [] route = "sat" -> sat(args, idx, o)
      [] route = "search_by_path" -> search_by_path(args, idx, o)
      [] route = "search_by_query" -> search_by_query(args, idx, o)
      [] route = "static_asset" -> static_asset(args)
      [] route = "status" -> status(idx)
      [] route = "transaction" -> transaction(args, idx, o)

\* One request, from the extraction (ex is Extract(route, segs)) to the
\* handler's result; a rejected path never reaches the handler.
Dispatch(route, ex, idx, o) ==
    IF ex.ok THEN Handler(route, ex.val, idx, o) ELSE Done(<<>>, Rejected(ex.msg))

---------------------------------------------------------------------------
(* The index and its writer.                                               *)

IndexState == [blockCount |-> blockCount, reorged |-> reorged, indexSats |-> indexSats]

\* Index::update: it brings the index to the node's tip; when the node's chain
\* no longer extends the indexed blocks it raises the reorg flag and fails; it
\* can fail for other reasons, and then the index is as it was.
IndexUpdate(idx, chainTip, isForked, succeeds) ==
    IF isForked /\ idx.blockCount > 0
    THEN [idx |-> [idx EXCEPT !.reorged = TRUE], result |-> "err"]
    ELSE IF succeeds
    THEN [idx |-> [idx EXCEPT !.blockCount = chainTip], result |-> "ok"]
    ELSE [idx |-> idx, result |-> "err"]

\* The effect of one facade call on the index: every call of the handlers reads.
CallEffect(call, idx, chainTip, isForked) ==
    IF call = "update" THEN IndexUpdate(idx, chainTip, isForked, TRUE).idx ELSE idx

RECURSIVE CallsEffect(_, _, _, _)
CallsEffect(calls, idx, chainTip, isForked) ==
    IF calls = <<>> THEN idx
    ELSE CallsEffect(Tail(calls), CallEffect(Head(calls), idx, chainTip, isForked),
                     chainTip, isForked)

SetIndex(idx) ==
    /\ blockCount' = idx.blockCount
    /\ reorged' = idx.reorged
    /\ indexSats' = idx.indexSats

---------------------------------------------------------------------------
(* Server::run and the Background Synchronizer.                            *)

\* A loop that ends at the first failed update.
SyncAfterUpdate_stops_on_error(result) ==
    IF result = "err" THEN "off" ELSE "sleep"

\* The loop body after the update call: the error, if any, is logged, and the
\* thread sleeps.
SyncAfterUpdate(result) == "sleep"

\* Option<u16>
NoPort == [some |-> FALSE, val |-> 0]
SomePort(port) == [some |-> TRUE, val |-> port]

NoFlags == [http |-> FALSE, https |-> FALSE, http_port |-> NoPort, https_port |-> NoPort]

\* An http_port that gives up the plain listener whenever TLS is asked for.
http_port_unless_https(self) ==
    IF self.http_port.some \/ (~self.https_port.some /\ ~self.https)
    THEN SomePort(IF self.http_port.some THEN self.http_port.val ELSE 80)
    ELSE NoPort

http_port(self) ==
    IF self.http \/ self.http_port.some \/ (~self.https_port.some /\ ~self.https)
    THEN SomePort(IF self.http_port.some THEN self.http_port.val ELSE 80)
    ELSE NoPort

\* An https_port that looks at the --https flag alone.
https_port_needs_flag(self) ==
    IF self.https
    THEN SomePort(IF self.https_port.some THEN self.https_port.val ELSE 443)
    ELSE NoPort

https_port(self) ==
    IF self.https \/ self.https_port.some
    THEN SomePort(IF self.https_port.some THEN self.https_port.val ELSE 443)
    ELSE NoPort

Listeners == {"http", "https"}

\* A listener task: "none" when not spawned, "serving", then "ok" (serve
\* returned Ok), "io_error" (serve returned an io::Error), "panicked" (the join
\* handle yields a JoinError) or "cancelled" (dropped with the runtime).
NoTask == [pc |-> "none", port |-> NoPort, tls |-> FALSE, handle |-> FALSE]

\* A spawn that does not give the TLS listener the shutdown handle.
spawn_tls_without_handle(port, https_acceptor) ==
    [pc |-> "serving", port |-> SomePort(port), tls |-> https_acceptor,
     handle |-> ~https_acceptor]

\* Server::spawn: the task serves the router on the port, bound to the handle.
spawn(port, https_acceptor) ==
    [pc |-> "serving", port |-> SomePort(port), tls |-> https_acceptor, handle |-> TRUE]

\* The ways the start of run can go: all well, Runtime::new fails, or one of
\* spawn (the address does not resolve) and acceptor fails.
StartupOutcomes(self) ==
    {"ok", "runtime"}
    \cup (IF http_port(self).some THEN {"spawn_http"} ELSE {})
    \cup (IF https_port(self).some THEN {"acceptor", "spawn_https"} ELSE {})

\* The ACME event-draining task that Server::acceptor spawns: where it is, the
\* events it has taken from the stream and what it has logged.
NoAcme == [pc |-> "none", stream |-> "open", events |-> <<>>, log |-> <<>>]

\* A draining loop that gives up at the first error event.
AcmeDrain_stops_on_error(task, result) ==
    CASE result = "end" -> [task EXCEPT !.pc = "ended"]
      [] result = "ok" -> [task EXCEPT !.events = Append(@, result),
                                       !.log = Append(@, "info")]
      [] result = "err" -> [task EXCEPT !.pc = "ended",
                                        !.events = Append(@, result),
                                        !.log = Append(@, "error")]

\* One turn of while let Some(result) = state.next().await { match result .. }.
AcmeDrain(task, result) ==
    CASE result = "end" -> [task EXCEPT !.pc = "ended"]
      [] result = "ok" -> [task EXCEPT !.events = Append(@, result),
                                       !.log = Append(@, "info")]
      [] result = "err" -> [task EXCEPT !.events = Append(@, result),
                                        !.log = Append(@, "error")]

\* Server::run up to the point where it awaits the listeners: the runtime, the
\* synchronizer thread, then the listeners of the configured ports, the plain
\* one first.  A failure returns the error at once; a plain listener spawned
\* before it is dropped with the runtime.
Run ==
    /\ runPc = "init"
    /\ \E startup \in StartupOutcomes(flags) :
         LET http == http_port(flags)
             https == https_port(flags)
         IN /\ syncPc' = IF startup = "runtime" THEN syncPc ELSE "update"
            /\ runPc' = IF startup # "ok" THEN "returned"
                        ELSE IF ~http.some /\ ~https.some THEN "panicked"
                        ELSE "serving"
            /\ runResult' = IF startup # "ok" THEN "err:startup" ELSE runResult
            /\ tasks' =
                 CASE startup = "ok" ->
                        [http |-> IF http.some THEN spawn(http.val, FALSE) ELSE NoTask,
                         https |-> IF https.some THEN spawn(https.val, TRUE) ELSE NoTask]
                   [] startup \in {"acceptor", "spawn_https"} /\ http.some ->
                        [tasks EXCEPT !.http =
                            [spawn(http.val, FALSE) EXCEPT !.pc = "cancelled"]]
                   [] OTHER -> tasks
            /\ acme' =
                 CASE startup = "ok" /\ https.some -> [NoAcme EXCEPT !.pc = "draining"]
                   [] startup = "spawn_https" -> [NoAcme EXCEPT !.pc = "cancelled"]
                   [] OTHER -> acme
    /\ UNCHANGED <<syncLast, chainVars, indexVars, reqs, parseVars, flags, handle>>

\* The holder of the handle triggers the shutdown.
Shutdown ==
    /\ handle = "live"
    /\ handle' = "shutdown"
    /\ UNCHANGED <<runPc, syncVars, chainVars, indexVars, reqs, parseVars, flags, tasks,
                   runResult, acme>>

\* A listener bound to the handle stops serving once the shutdown is triggered:
\* serve returns Ok(()).
ListenerStop(l) ==
    /\ tasks[l].pc = "serving"
    /\ tasks[l].handle
    /\ handle = "shutdown"
    /\ tasks' = [tasks EXCEPT ![l].pc = "ok"]
    /\ UNCHANGED <<runPc, syncVars, chainVars, indexVars, reqs, parseVars, flags, handle,
                   runResult, acme>>

\* A listener task ends on its own: serve returns an io::Error (the port
\* cannot be bound, accept fails), or the task panics.
ListenerFail(l) ==
    /\ tasks[l].pc = "serving"
    /\ \E outcome \in {"io_error", "panicked"} :
         tasks' = [tasks EXCEPT ![l].pc = outcome]
    /\ UNCHANGED <<runPc, syncVars, chainVars, indexVars, reqs, parseVars, flags, handle,
                   runResult, acme>>

\* What awaiting a task's JoinHandle yields: Result<io::Result<()>, JoinError>.
TaskResult(task) ==
    IF task.pc = "panicked" THEN Err(<<"JoinError">>)
    ELSE Ok(IF task.pc = "io_error" THEN Err(<<"io::Error">>) ELSE Ok(<<>>))

\* Result::and
And(a, b) == IF a.ok THEN b ELSE a

\* The two ? of run on a Result<io::Result<()>, JoinError>.
TryTry(result) ==
    IF ~result.ok THEN "err:join"
    ELSE IF ~result.val.ok THEN "err:io"
    ELSE "ok"

\* A join of the two listeners that reports the plain listener's result only.
JoinBoth_plain_only(http_result, https_result) == TryTry(http_result)

\* http_result.and(https_result)??
JoinBoth(http_result, https_result) == TryTry(And(http_result, https_result))

\* What run returns once the tasks it awaits have completed.
JoinOutcome(ts) ==
    IF ts.http.pc # "none" /\ ts.https.pc # "none"
    THEN JoinBoth(TaskResult(ts.http), TaskResult(ts.https))
    ELSE IF ts.http.pc # "none" THEN TryTry(TaskResult(ts.http))
    ELSE TryTry(TaskResult(ts.https))

\* The await of run returns: every spawned listener task has completed.
Await ==
    /\ runPc = "serving"
    /\ \A l \in Listeners : tasks[l].pc # "serving"
    /\ runPc' = "returned"
    /\ runResult' = JoinOutcome(tasks)
    /\ acme' = IF acme.pc = "draining" THEN [acme EXCEPT !.pc = "cancelled"] ELSE acme
    /\ UNCHANGED <<syncVars, chainVars, indexVars, reqs, parseVars, flags, tasks, handle>>

\* The task of Server::acceptor takes the next item of the ACME event stream
\* while the runtime of run lives: an event, an error, or the end of the stream.
AcmeNext ==
    /\ runPc = "serving"
    /\ acme.pc = "draining"
    /\ \E result \in {"ok", "err", "end"} :
         /\ result # "end" => Len(acme.events) < MaxEvents
         /\ acme' = [AcmeDrain(acme, result) EXCEPT
                        !.stream = IF result = "end" THEN "ended" ELSE @]
    /\ UNCHANGED <<runPc, syncVars, chainVars, indexVars, reqs, parseVars, flags, tasks,
                   handle, runResult>>

SyncUpdate ==
    /\ syncPc = "update"
    /\ \E succeeds \in BOOLEAN :
         LET u == IndexUpdate(IndexState, tip, forked, succeeds) IN
         /\ SetIndex(u.idx)
         /\ syncLast' = u.result
         /\ syncPc' = SyncAfterUpdate(u.result)
    /\ UNCHANGED <<listenVars, runPc, chainVars, reqs, parseVars>>

\* thread::sleep(Duration::from_millis(100)) returns.
SyncSleep ==
    /\ syncPc = "sleep"
    /\ syncPc' = "update"
    /\ UNCHANGED <<listenVars, runPc, syncLast, chainVars, indexVars, reqs, parseVars>>

\* The node learns of a new block.
Mine ==
    /\ tip < MaxBlocks
    /\ tip' = tip + 1
    /\ UNCHANGED <<listenVars, runPc, syncVars, forked, indexVars, reqs, parseVars>>

\* The node's tip is invalidated and replaced: the indexed blocks are no longer
\* on the node's chain.
Fork ==
    /\ ~forked
    /\ blockCount > 1
    /\ forked' = TRUE
    /\ UNCHANGED <<listenVars, runPc, syncVars, tip, indexVars, reqs, parseVars>>

---------------------------------------------------------------------------
(* Requests.                                                               *)

NotParsed == [tag |-> "None"]
NoOutcome == [tag |-> "None", msg |-> <<>>]
NoResponse == Response(0, <<>>, NoLocation)
Idle ==
    [pc |-> "idle", route |-> "", segs |-> <<>>, start |-> 0, handled |-> 0,
     calls |-> <<>>, answers |-> <<>>, items |-> <<0, 0>>,
     insc |-> [content_type |-> None, content |-> None],
     out |-> NoOutcome,
     response |-> NoResponse]

\* The number of facade calls a handler can make.
NumCalls(route) ==
    CASE route \in {"block", "output", "sat"} -> 4
      [] route \in {"home", "inscription", "transaction"} -> 3
      [] route \in {"input", "inscriptions"} -> 2
      [] route \in {"block_count", "clock", "content", "range", "rare_txt",
                    "search_by_path", "search_by_query"} -> 1
      [] OTHER -> 0

\* The oracles of a route.  A handler returns at its first failed call, so what
\* the calls after it would answer is left out of the choice (they are all
\* "err"), and so are the failure's text when no call fails and the sizes of a
\* block or transaction that the first call does not find.
Canonical(o) ==
    /\ \A i \in DOMAIN o.res : \A j \in DOMAIN o.res :
          (i < j /\ o.res[i] = "err") => o.res[j] = "err"
    /\ (\A i \in DOMAIN o.res : o.res[i] # "err") => o.e = "storage unreadable"
    /\ (o.n # 0 \/ o.m # 0) => o.res[1] = "some"

NoInscription == [content_type |-> None, content |-> None]

Oracles(route) ==
    {o \in [res : [1..NumCalls(route) -> CallResults],
            e : ErrorDetails,
            n : IF route \in {"output", "input"} THEN 0..MaxItems
                ELSE IF route = "home" THEN {0, INSCRIPTIONS_LIMIT + 1}
                ELSE {0},
            m : IF route = "input" THEN 0..MaxItems ELSE {0},
            insc : IF route = "content" THEN Inscriptions ELSE {NoInscription}] :
        Canonical(o)}

\* A request whose path is rejected makes no call: nothing is drawn for it.
NoOracle ==
    [res |-> <<>>, e |-> "storage unreadable", n |-> 0, m |-> 0, insc |-> NoInscription]

OraclesFor(route, ex) == IF ex.ok THEN Oracles(route) ELSE {NoOracle}

\* A connection delivers a request for the route with these path segments.
Arrive(r, route, segs) ==
    /\ runPc = "serving"
    /\ \E l \in Listeners : tasks[l].pc = "serving"
    /\ reqs[r].pc = "idle"
    /\ reqs' = [reqs EXCEPT ![r] =
                  [Idle EXCEPT !.pc = "pending", !.route = route, !.segs = segs,
                               !.start = blockCount]]
    /\ UNCHANGED <<listenVars, runPc, syncVars, chainVars, indexVars, parseVars>>

\* The request q served against the index state idx with the oracle o: the
\* handler's calls and their answers, its result and the response.
Serve(q, ex, idx, o) ==
    LET d == Dispatch(q.route, ex, idx, o) IN
    [q EXCEPT !.pc = "done", !.handled = @ + 1,
              !.calls = d.calls,
              !.answers = [k \in 1..Len(d.calls) |-> Answer(d.calls[k], idx, o, k)],
              !.items = <<o.n, o.m>>,
              !.insc = o.insc,
              !.out = d.out,
              !.response = Respond(d.out)]

\* The runtime runs the request: extraction, handler, response.
Handle(r) ==
    /\ reqs[r].pc = "pending"
    /\ LET ex == Extract(reqs[r].route, reqs[r].segs)
           idx == IndexState
       IN \E o \in OraclesFor(reqs[r].route, ex) :
            LET served == Serve(reqs[r], ex, idx, o) IN
            /\ reqs' = [reqs EXCEPT ![r] = served]
            /\ SetIndex(CallsEffect(served.calls, idx, tip, forked))
    /\ UNCHANGED <<listenVars, runPc, syncVars, chainVars, parseVars>>

\* The response has been written; the slot is free again.
Complete(r) ==
    /\ reqs[r].pc = "done"
    /\ reqs' = [reqs EXCEPT ![r] = Idle]
    /\ UNCHANGED <<listenVars, runPc, syncVars, chainVars, indexVars, parseVars>>

InitServer ==
    /\ runPc = "init"
    /\ syncPc = "off"
    /\ syncLast = "none"
    /\ tip = 1
    /\ forked = FALSE
    /\ blockCount = 0
    /\ reorged = FALSE
    /\ indexSats \in BOOLEAN
    /\ rawQuery = <<>>
    /\ parsed = NotParsed
    /\ flags = NoFlags
    /\ tasks = [l \in Listeners |-> NoTask]
    /\ handle = "live"
    /\ runResult = "none"
    /\ acme = NoAcme

---------------------------------------------------------------------------
(* The service under concurrent requests to /block-count.                  *)

Init ==
    /\ InitServer
    /\ reqs = [r \in 1..NumRequests |-> Idle]

Next ==
    \/ Run
    \/ SyncUpdate
    \/ SyncSleep
    \/ Mine
    \/ Fork
    \/ \E r \in DOMAIN reqs : Arrive(r, "block_count", <<>>)
    \/ \E r \in DOMAIN reqs : Handle(r)
    \/ \E r \in DOMAIN reqs : Complete(r)

Spec == Init /\ [][Next]_vars

\* The synchronizer is a thread of its own: the scheduler runs it again and again.
FairSpec == Spec /\ WF_vars(SyncUpdate) /\ WF_vars(SyncSleep) /\ WF_vars(Run)

---------------------------------------------------------------------------
(* The dispatcher with every route: one request at a time, the Background  *)
(* Synchronizer running.                                                   *)

H0 == Rep("0", HASH_LEN)
HA == Rep("A", HASH_LEN)
SatInputs == {<<"0">>, <<"1">>, <<"=">>, SatSupplyNumeral}
TxidInputs == {H0, <<"f", "o", "o">>}

\* The path segments tried on each route.
Inputs(route) ==
    CASE route = "block" ->
            {<<s>> : s \in {<<"0">>, <<"1">>, <<"x">>, H0, HA, Rep("g", HASH_LEN)}}
      [] route = "sat" -> {<<s>> : s \in SatInputs}
      [] route = "ordinal" -> {<<(<<"0">>)>>}
      [] route = "range" -> {<<a, b>> : a \in SatInputs, b \in SatInputs}
      [] route = "output" ->
            {<<t, to_string(v)>> : t \in TxidInputs, v \in 0..1}
      [] route \in {"transaction", "content", "inscription"} ->
            {<<s>> : s \in TxidInputs}
      [] route = "input" ->
            {<<h, to_string(i), to_string(j)>> :
                h \in {<<"0">>, <<"x">>}, i \in 0..1, j \in 0..1}
      [] route = "static_asset" ->
            {<<p, f>> : p \in {<<>>, <<"/">>}, f \in {<<"index.css">>, <<"nope">>}}
      [] route \in {"search_by_path", "search_by_query"} ->
            {<<s>> : s \in {<<"0">>, <<" ", "0", " ">>, H0, <<" ">> \o HA, H0 \o <<":", "0">>,
                            H0 \o <<":", "U+0663">>, H0 \o <<":">>}}
      [] OTHER -> {<<>>}

InitHandlers ==
    /\ InitServer
    /\ reqs = [r \in {1} |-> Idle]

NextHandlers ==
    \/ Run
    \/ SyncUpdate
    \/ SyncSleep
    \/ Mine
    \/ Fork
    \/ \E route \in Routes : \E segs \in Inputs(route) : Arrive(1, route, segs)
    \/ Handle(1)
    \/ Complete(1)

SpecHandlers == InitHandlers /\ [][NextHandlers]_vars

---------------------------------------------------------------------------
(* The parser on its own, and a request to /block/{query} with the segment *)
(* it parsed.                                                              *)

\* The path segments the parser is tried on: runs of one character and
\* concatenations of two runs, of the lengths around the limits of the rule,
\* and the numerals around u64::MAX.
QueryChars == {"0", "9", "a", "F", "g", "+"}
RunLens == {1, 2, 20, 63, 64, 65}
Runs == {Rep(c, n) : c \in QueryChars, n \in RunLens}
QueryStrings ==
    {<<>>} \cup Runs \cup {a \o b : a \in Runs, b \in Runs}
    \cup {U64MaxNumeral, SubSeq(U64MaxNumeral, 1, 19) \o <<"6">>,
          <<"+">> \o U64MaxNumeral}

ParseQuery ==
    /\ parsed = NotParsed
    /\ parsed' = BlockQueryFromStr(rawQuery)
    /\ UNCHANGED <<listenVars, runPc, syncVars, chainVars, indexVars, reqs, rawQuery>>

InitBlockQuery ==
    /\ rawQuery \in QueryStrings
    /\ parsed = NotParsed
    /\ runPc = "serving"
    /\ syncPc = "sleep"
    /\ syncLast = "ok"
    /\ tip = 1
    /\ forked = FALSE
    /\ blockCount = 1
    /\ reorged = FALSE
    /\ indexSats = FALSE
    /\ flags = NoFlags
    /\ tasks = [http |-> spawn(80, FALSE), https |-> NoTask]
    /\ handle = "live"
    /\ runResult = "none"
    /\ acme = NoAcme
    /\ reqs = [r \in {1} |->
                 [Idle EXCEPT !.pc = "pending", !.route = "block",
                              !.segs = <<rawQuery>>, !.start = 1]]

NextBlockQuery ==
    \/ ParseQuery
    \/ Handle(1)

SpecBlockQuery == InitBlockQuery /\ [][NextBlockQuery]_vars

---------------------------------------------------------------------------
(* The home page over an index of few and of many blocks.                  *)

InitHome ==
    /\ blockCount \in {0, 1, 2, BLOCKS_LIMIT - 1, BLOCKS_LIMIT, BLOCKS_LIMIT + 1,
                       BLOCKS_LIMIT + 2}
    /\ tip = blockCount
    /\ forked = FALSE
    /\ reorged = FALSE
    /\ indexSats \in BOOLEAN
    /\ runPc = "serving"
    /\ syncPc = "sleep"
    /\ syncLast = "ok"
    /\ rawQuery = <<>>
    /\ parsed = NotParsed
    /\ flags = NoFlags
    /\ tasks = [http |-> spawn(80, FALSE), https |-> NoTask]
    /\ handle = "live"
    /\ runResult = "none"
    /\ acme = NoAcme
    /\ reqs = [r \in {1} |-> Idle]

NextHome ==
    \/ Arrive(1, "home", <<>>)
    \/ Handle(1)
    \/ Complete(1)

SpecHome == InitHome /\ [][NextHome]_vars

---------------------------------------------------------------------------
(* The same request served twice: slot 1 against the index as it is, slot 2 *)
(* against the index with the reorg flag the other way, every call drawing  *)
(* the same answer in both.                                                 *)

ArriveTwin(route, segs) ==
    /\ runPc = "serving"
    /\ \E l \in Listeners : tasks[l].pc = "serving"
    /\ \A r \in DOMAIN reqs : reqs[r].pc = "idle"
    /\ reqs' = [r \in DOMAIN reqs |->
                  [Idle EXCEPT !.pc = "pending", !.route = route, !.segs = segs,
                               !.start = blockCount]]
    /\ UNCHANGED <<listenVars, runPc, syncVars, chainVars, indexVars, parseVars>>

HandleTwin ==
    /\ \A r \in DOMAIN reqs : reqs[r].pc = "pending"
    /\ LET ex == Extract(reqs[1].route, reqs[1].segs)
           idx == IndexState
           flipped == [idx EXCEPT !.reorged = ~idx.reorged]
       IN \E o \in OraclesFor(reqs[1].route, ex) :
            /\ reqs' = [r \in DOMAIN reqs |->
                          Serve(reqs[r], ex, IF r = 1 THEN idx ELSE flipped, o)]
            /\ SetIndex(CallsEffect(Serve(reqs[1], ex, idx, o).calls, idx, tip, forked))
    /\ UNCHANGED <<listenVars, runPc, syncVars, chainVars, parseVars>>

CompleteTwin ==
    /\ \A r \in DOMAIN reqs : reqs[r].pc = "done"
    /\ reqs' = [r \in DOMAIN reqs |-> Idle]
    /\ UNCHANGED <<listenVars, runPc, syncVars, chainVars, indexVars, parseVars>>

InitReorg ==
    /\ InitServer
    /\ reqs = [r \in {1, 2} |-> Idle]

NextReorg ==
    \/ Run
    \/ SyncUpdate
    \/ SyncSleep
    \/ Mine
    \/ Fork
    \/ \E route \in Routes : \E segs \in Inputs(route) : ArriveTwin(route, segs)
    \/ HandleTwin
    \/ CompleteTwin

SpecReorg == InitReorg /\ [][NextReorg]_vars

---------------------------------------------------------------------------
(* The listeners: run with every combination of the flags, the listener     *)
(* tasks ending on their own or on the shutdown handle, the synchronizer     *)
(* running beside them.                                                      *)

\* The ports given on the command line in the tests.
FlagPorts == {NoPort, SomePort(0), SomePort(1000)}

FlagSets == [http : BOOLEAN, https : BOOLEAN, http_port : FlagPorts, https_port : FlagPorts]

InitListeners ==
    /\ flags \in FlagSets
    /\ tasks = [l \in Listeners |-> NoTask]
    /\ handle = "live"
    /\ runResult = "none"
    /\ acme = NoAcme
    /\ runPc = "init"
    /\ syncPc = "off"
    /\ syncLast = "none"
    /\ tip = 1
    /\ forked = FALSE
    /\ blockCount = 0
    /\ reorged = FALSE
    /\ indexSats = FALSE
    /\ rawQuery = <<>>
    /\ parsed = NotParsed
    /\ reqs = [r \in {1} |-> Idle]

NextListeners ==
    \/ Run
    \/ SyncUpdate
    \/ SyncSleep
    \/ Shutdown
    \/ \E l \in Listeners : ListenerStop(l)
    \/ \E l \in Listeners : ListenerFail(l)
    \/ Await
    \/ AcmeNext

SpecListeners == InitListeners /\ [][NextListeners]_vars

\* The runtime keeps polling the listener tasks and the future run awaits, and
\* the synchronizer is a thread of its own.
FairSpecListeners ==
    /\ SpecListeners
    /\ \A l \in Listeners : WF_vars(ListenerStop(l))
    /\ WF_vars(Await)
    /\ WF_vars(SyncUpdate)
    /\ WF_vars(SyncSleep)

---------------------------------------------------------------------------
(* Properties.                                                             *)

Finished(r) == reqs[r].pc = "done"
Slots == DOMAIN reqs

\* The facade operations of the handlers: all of them read.
FacadeReads ==
    {"height", "rare_sat_satpoint", "blocktime", "get_inscription_by_sat",
     "has_satoshi_index", "get_transaction", "list", "rare_sat_satpoints", "blocks",
     "get_latest_inscriptions", "get_block_by_height", "block_header_info",
     "get_block_by_hash", "get_inscription_by_inscription_id", "is_reorged",
     "block_header", "block_count", "get_genesis_height"}

\* C1: while the synchronizer advances the index, every answer of
\* GET /block-count whose read of the index did not fail is 200 with the decimal
\* text of a count the index held between the arrival of the request and now:
\* with the index going from c to c+1 that is c or c+1 and nothing else, and a
\* request that arrived after the step (start = c+1) gets c+1.
C1_BlockCountOldOrNew ==
    \A r \in Slots :
        (Finished(r) /\ reqs[r].route = "block_count" /\ reqs[r].answers = <<"some">>)
        => \E n \in reqs[r].start..blockCount :
              reqs[r].response = Response(200, to_string(n), NoLocation)

\* Two requests that both arrived at count 1: one answered 1, the other, handled
\* after the synchronizer's step, answered 2.
C1_Witness ==
    \E r1 \in Slots : \E r2 \in Slots :
        /\ Finished(r1) /\ Finished(r2)
        /\ reqs[r1].start = 1 /\ reqs[r2].start = 1
        /\ reqs[r1].response = Response(200, <<"1">>, NoLocation)
        /\ reqs[r2].response = Response(200, <<"2">>, NoLocation)
        /\ blockCount = 2

\* C2: the synchronizer's loop never ends because of an update: after every
\* update call, failed or not, it sleeps (it goes nowhere else), and from the
\* sleep it always comes to call update again.
C2_SynchronizerAlwaysRetries ==
    /\ [][syncPc = "update" => syncPc' \in {"update", "sleep"}]_vars
    /\ [][syncPc = "sleep" => syncPc' \in {"sleep", "update"}]_vars
    /\ (syncPc = "sleep" /\ syncLast = "err") ~> (syncPc = "update")
    /\ (syncPc = "sleep" /\ syncLast = "ok") ~> (syncPc = "update")

\* The synchronizer is about to call update again after a failed update that
\* found a reorg.
C2_Witness == syncPc = "update" /\ syncLast = "err" /\ reorged

\* C3: no handler calls anything but the reading operations of the facade, the
\* step that handles a request leaves the index as it was, and the index changes
\* only in a step of the synchronizer's update.
C3_OnlySynchronizerWrites ==
    /\ [](\A r \in Slots : \A k \in DOMAIN reqs[r].calls :
             reqs[r].calls[k] \in FacadeReads)
    /\ [][(\E r \in Slots : reqs[r].pc = "pending" /\ reqs'[r].pc = "done")
            => UNCHANGED indexVars]_vars
    /\ [][indexVars' # indexVars => (syncPc = "update" /\ syncPc' = "sleep")]_vars

\* A request was handled, with facade calls, while the chain was ahead of the
\* index.
C3_Witness ==
    \E r \in Slots : Finished(r) /\ reqs[r].calls # <<>> /\ blockCount < tip

\* C4: a NotFound(message) is answered 404 with the message as the body, a
\* BadRequest(message) 400 with the message as the body, and a handler that
\* fails fails with Internal, NotFound or BadRequest.
C4_ErrorMapping ==
    \A r \in Slots : Finished(r) =>
        /\ reqs[r].out.tag = "NotFound" =>
              reqs[r].response = Response(404, reqs[r].out.msg, NoLocation)
        /\ reqs[r].out.tag = "BadRequest" =>
              reqs[r].response = Response(400, reqs[r].out.msg, NoLocation)
        /\ (reqs[r].response.status >= 400 /\ reqs[r].out.tag # "Rejected")
              => reqs[r].out.tag \in ServerErrorTags

\* GET /block/{hash} of an unknown hash: 404 "block {hash} unknown".
C4_Witness ==
    \E r \in Slots :
        /\ Finished(r)
        /\ reqs[r].out.tag = "NotFound"
        /\ reqs[r].response = Response(404, <<"block ">> \o H0 \o <<" unknown">>, NoLocation)

\* C5: an Internal(cause) is answered 500 with the body "Internal Server Error"
\* whatever the cause, and the request is handled once.
C5_InternalIsGeneric ==
    \A r \in Slots : (Finished(r) /\ reqs[r].out.tag = "Internal") =>
        /\ reqs[r].response = Response(500, <<"Internal Server Error">>, NoLocation)
        /\ reqs[r].handled = 1

\* An internal error whose cause names the failure of the node.
C5_Witness ==
    \E r \in Slots :
        /\ Finished(r)
        /\ reqs[r].out.tag = "Internal"
        /\ \E i \in DOMAIN reqs[r].out.msg : reqs[r].out.msg[i] = "rpc timeout"
        /\ reqs[r].response.status = 500

\* C6: a facade call that fails is the last call of its handler, and the
\* request ends with Internal and 500.
C6_FacadeErrorIsInternal ==
    \A r \in Slots : Finished(r) =>
        \A k \in DOMAIN reqs[r].answers :
            reqs[r].answers[k] = "err" =>
                /\ k = Len(reqs[r].calls)
                /\ reqs[r].out.tag = "Internal"
                /\ reqs[r].response.status = 500

\* GET /block/{height}: the first lookup fails.
C6_Witness ==
    \E r \in Slots :
        /\ Finished(r)
        /\ reqs[r].route = "block"
        /\ reqs[r].calls = <<"get_block_by_height">>
        /\ reqs[r].answers = <<"err">>
        /\ reqs[r].response.status = 500

\* The lookups a view requires: those of the named handlers, but for the
\* inscription of a transaction, which the transaction view shows only if there
\* is one.
Required(route, call) ==
    /\ route \in {"block", "transaction", "output", "input", "inscription",
                  "content", "rare_txt", "clock"}
    /\ ~(route = "transaction" /\ call = "get_inscription_by_inscription_id")

\* C7 as claimed: every required lookup that answers no value, the height
\* included, ends the request with NotFound and 404.
C7_AbsentIsNotFound_Claimed ==
    \A r \in Slots : Finished(r) =>
        \A k \in DOMAIN reqs[r].answers :
            (reqs[r].answers[k] = "none" /\ Required(reqs[r].route, reqs[r].calls[k]))
            => (reqs[r].out.tag = "NotFound" /\ reqs[r].response.status = 404)

\* C7, amended: a required lookup that answers no value ends the request with
\* NotFound and 404, except the lookup of the indexed height: a missing height
\* (no block indexed yet) ends /clock and /block with Internal and 500.
C7_AbsentIsNotFound ==
    \A r \in Slots : Finished(r) =>
        \A k \in DOMAIN reqs[r].answers :
            (reqs[r].answers[k] = "none" /\ Required(reqs[r].route, reqs[r].calls[k]))
            => IF reqs[r].calls[k] = "height"
               THEN reqs[r].out.tag = "Internal" /\ reqs[r].response.status = 500
               ELSE reqs[r].out.tag = "NotFound" /\ reqs[r].response.status = 404

\* GET /rare.txt of an index without sat tracking: the listing is missing, 404.
C7_Witness ==
    \E r \in Slots :
        /\ Finished(r)
        /\ reqs[r].route = "rare_txt"
        /\ reqs[r].answers = <<"none">>
        /\ reqs[r].response.status = 404

\* C8: a request answered 400 has made no facade call.
C8_BadRequestBeforeLookup ==
    \A r \in Slots :
        (Finished(r) /\ reqs[r].response.status = 400) => reqs[r].calls = <<>>

\* GET /range/=/0: the extractor rejects the start, 400 without a call.
C8_Witness ==
    \E r \in Slots :
        /\ Finished(r)
        /\ reqs[r].route = "range"
        /\ reqs[r].segs = <<(<<"=">>), (<<"0">>)>>
        /\ reqs[r].response =
              Response(400, <<"Invalid URL: ", "invalid digit found in string">>, NoLocation)
        /\ reqs[r].calls = <<>>

\* The request to /block/{query} was rejected with 400 without a lookup.
BlockRequestRejected ==
    /\ reqs[1].response.status = 400
    /\ reqs[1].calls = <<>>

\* C9 as claimed: 64 hex characters are a Hash, every other string that parses
\* as an unsigned integer is the Height of that integer, the rest is rejected.
C9_BlockQuery_Claimed ==
    parsed # NotParsed =>
        IF HashMatch(rawQuery) THEN parsed.tag = "Hash"
        ELSE IF ParseU64(rawQuery).ok THEN parsed = Height(ParseU64(rawQuery).val)
        ELSE parsed.tag = "Err" /\ (Finished(1) => BlockRequestRejected)

\* C9, amended: 64 hex characters are a Hash (displayed in lower case); a string
\* of any other length than 64 that parses as an unsigned integer is the Height
\* of that integer; every remaining string, among them every 64-character
\* string that is not all hex even if it reads as an integer ("+" and 63
\* digits), fails, and the request is answered 400 without a lookup.
C9_BlockQuery ==
    parsed # NotParsed =>
        IF HashMatch(rawQuery)
        THEN parsed = Hash([i \in 1..HASH_LEN |-> LowerOf(rawQuery[i])])
        ELSE IF Len(rawQuery) # HASH_LEN /\ ParseU64(rawQuery).ok
        THEN parsed = Height(ParseU64(rawQuery).val)
        ELSE parsed.tag = "Err" /\ (Finished(1) => BlockRequestRejected)

\* "+" and 63 zeros: 64 characters, not a hash, rejected although it reads as 0.
C9_Witness ==
    /\ rawQuery = <<"+">> \o Rep("0", 63)
    /\ parsed.tag = "Err"
    /\ Finished(1)
    /\ BlockRequestRejected

\* C10: GET /range/{start}/{end} with two valid sats: start < end gives 200
\* (the view's one facade call not failing), start = end gives 400 "empty range",
\* start > end gives 400 "range start greater than range end".
C10_RangeOrdering ==
    \A r \in Slots :
        (Finished(r) /\ reqs[r].route = "range"
            /\ ParseSat(reqs[r].segs[1]).ok /\ ParseSat(reqs[r].segs[2]).ok)
        => LET order == CmpNum(ParseSat(reqs[r].segs[1]).val, ParseSat(reqs[r].segs[2]).val)
           IN CASE order = -1 ->
                      "err" \notin {reqs[r].answers[k] : k \in DOMAIN reqs[r].answers}
                      => reqs[r].response.status = 200
                [] order = 0 ->
                      reqs[r].response = Response(400, <<"empty range">>, NoLocation)
                [] order = 1 ->
                      reqs[r].response =
                          Response(400, <<"range start greater than range end">>, NoLocation)

\* GET /range/1/0 is refused, not served as the range 0-1.
C10_Witness ==
    \E r \in Slots :
        /\ Finished(r)
        /\ reqs[r].route = "range"
        /\ reqs[r].segs = <<(<<"1">>), (<<"0">>)>>
        /\ reqs[r].response =
              Response(400, <<"range start greater than range end">>, NoLocation)

SearchRoutes == {"search_by_path", "search_by_query"}

\* C11: a search for q, on either route, with t the trimmed q: when t is 64 hex
\* characters the block probe decides between /block/t (a block is known) and
\* /tx/t (none is); otherwise 64 hex characters, a colon and digits give
\* /output/t; everything else gives /sat/t.  The target is a function of t and
\* of the probe's answer alone, so " 0 " and "0" get the same redirect.
C11_SearchClassification ==
    \A r \in Slots :
        (Finished(r) /\ reqs[r].route \in SearchRoutes
            /\ "err" \notin {reqs[r].answers[k] : k \in DOMAIN reqs[r].answers})
        => LET t == Trim(reqs[r].segs[1])
               hex64 == Len(t) = HASH_LEN /\ IsHex(t)
               outpoint == /\ Len(t) >= HASH_LEN + 2
                           /\ IsHex(SubSeq(t, 1, HASH_LEN))
                           /\ t[HASH_LEN + 1] = ":"
                           /\ \A i \in (HASH_LEN + 2)..Len(t) : t[i] \in RegexDigits
               target == IF hex64 /\ reqs[r].answers = <<"some">> THEN <<"/block/">> \o t
                         ELSE IF hex64 THEN <<"/tx/">> \o t
                         ELSE IF outpoint THEN <<"/output/">> \o t
                         ELSE <<"/sat/">> \o t
           IN /\ reqs[r].out = RedirectTo(target)
              /\ reqs[r].response.location = target
              /\ hex64 <=> reqs[r].calls = <<"block_header">>

\* GET /search/ 0 (with blanks around the 0) is redirected to /sat/0.
C11_Witness ==
    \E r \in Slots :
        /\ Finished(r)
        /\ reqs[r].route = "search_by_path"
        /\ reqs[r].segs = <<(<<" ", "0", " ">>)>>
        /\ reqs[r].response.location = <<"/sat/", "0">>

\* The search request ended with a redirect.
SearchSucceeded(r) ==
    Finished(r) /\ reqs[r].route \in SearchRoutes /\ reqs[r].out.tag = "Redirect"

\* C12 as claimed: every successful search is answered 302 with the classified
\* path as its Location.
C12_SearchRedirect_Claimed ==
    \A r \in Slots : SearchSucceeded(r) =>
        /\ reqs[r].response.status = 302
        /\ reqs[r].response.location = reqs[r].out.msg

\* C12, amended: every successful search is answered 303 See Other with the
\* classified path as its Location.
C12_SearchRedirect ==
    \A r \in Slots : SearchSucceeded(r) =>
        /\ reqs[r].response.status = 303
        /\ reqs[r].response.location = reqs[r].out.msg
        /\ reqs[r].response.location # NoLocation

\* GET /search?query={64 hex} with a known block: 303 to /block/{hash}.
C12_Witness ==
    \E r \in Slots :
        /\ SearchSucceeded(r)
        /\ reqs[r].route = "search_by_query"
        /\ reqs[r].response = Response(303, <<>>, <<"/block/">> \o H0)

\* C13: GET /output/{txid}:{vout}: when the transaction is found and has no
\* output number vout (vout is at least its number of outputs), and when the
\* transaction is unknown, the answer is 404 "output {txid}:{vout} unknown".
C13_OutputOutOfRange ==
    \A r \in Slots :
        (Finished(r) /\ reqs[r].route = "output"
            /\ ParseOutPoint(reqs[r].segs[1], reqs[r].segs[2]).ok)
        => LET outpoint == ParseOutPoint(reqs[r].segs[1], reqs[r].segs[2]).val
               outputs == to_string(reqs[r].items[1])
               unknown == Response(404, <<"output ">> \o outpoint.txid \o <<":">>
                                        \o outpoint.vout \o <<" unknown">>, NoLocation)
           IN /\ reqs[r].answers[1] = "none" => reqs[r].response = unknown
              /\ (reqs[r].answers[1] = "some" /\ CmpNum(outpoint.vout, outputs) # -1)
                    => reqs[r].response = unknown

\* The transaction has one output and output 1 is asked for: 404.
C13_Witness ==
    \E r \in Slots :
        /\ Finished(r)
        /\ reqs[r].route = "output"
        /\ reqs[r].segs = <<H0, (<<"1">>)>>
        /\ reqs[r].answers = <<"some">>
        /\ reqs[r].items[1] = 1
        /\ reqs[r].response =
              Response(404, <<"output ">> \o H0 \o <<":", "1", " unknown">>, NoLocation)

\* The step that handles the request in slot r.
Handled(r) == reqs[r].pc = "pending" /\ reqs'[r].pc = "done"

\* C14: whatever the state of the index, GET /status is answered 200, with the
\* body "OK" when the reorg flag is down and with the reorg message when it is
\* up; it makes one call, which cannot fail.
C14_StatusAlways200 ==
    [][\A r \in Slots : (Handled(r) /\ reqs[r].route = "status") =>
          /\ reqs'[r].response =
                Response(200, IF reorged THEN ReorgMessage ELSE <<"OK">>, NoLocation)
          /\ reqs'[r].calls = <<"is_reorged">>
          /\ reqs'[r].answers = <<"some">>]_vars

\* GET /status after the synchronizer found a reorg: 200 with the message.
C14_Witness ==
    \E r \in Slots :
        /\ Finished(r)
        /\ reqs[r].route = "status"
        /\ reorged
        /\ reqs[r].response =
              Response(200, <<"reorg detected, please rebuild the database.">>, NoLocation)

\* C16: GET /rare.txt, the listing call not failing: 404 with the fixed message
\* when the index does not track sats, 200 with the listing when it does.
C16_RareTxt ==
    \A r \in Slots :
        (Finished(r) /\ reqs[r].route = "rare_txt" /\ reqs[r].answers # <<"err">>)
        => IF indexSats
           THEN /\ reqs[r].answers = <<"some">>
                /\ reqs[r].response = Response(200, <<"RareTxt">>, NoLocation)
           ELSE /\ reqs[r].answers = <<"none">>
                /\ reqs[r].response =
                      Response(404, <<"tracking rare sats requires index created with ",
                                      "GRAVE", "--index-sats", "GRAVE", " flag">>, NoLocation)

\* GET /rare.txt of an index that tracks sats: 200 with the listing.
C16_Witness ==
    \E r \in Slots :
        /\ Finished(r)
        /\ reqs[r].route = "rare_txt"
        /\ indexSats
        /\ reqs[r].response.status = 200

\* C15: the same request served against two index states that differ only in
\* the reorg flag gets the same calls, the same result and the same response,
\* on every route but /status, whose body tells the two states apart.
C15_ReorgOnlyInStatus ==
    (Finished(1) /\ Finished(2)) =>
        IF reqs[1].route = "status"
        THEN /\ reqs[1].response.status = reqs[2].response.status
             /\ reqs[1].response.body # reqs[2].response.body
        ELSE /\ reqs[1].calls = reqs[2].calls
             /\ reqs[1].answers = reqs[2].answers
             /\ reqs[1].out = reqs[2].out
             /\ reqs[1].response = reqs[2].response

\* With the reorg flag up, GET /block-count is answered 200 as it would be with
\* the flag down.
C15_Witness ==
    /\ Finished(1) /\ Finished(2)
    /\ reorged
    /\ reqs[1].route = "block_count"
    /\ reqs[1].response.status = 200
    /\ reqs[2].response = reqs[1].response

\* run got past its start: the listeners of the configured ports were spawned.
Started == runPc \in {"serving", "returned"} /\ runResult # "err:startup"

\* C17: the plain listener runs iff --http or --http-port is given or neither
\* --https nor --https-port is, on the given port, else on 80; the TLS
\* listener runs iff --https or --https-port is given, on the given port,
\* else on 443.
C17_ListenerSelection ==
    Started =>
        LET plain == flags.http \/ flags.http_port.some
                     \/ (~flags.https /\ ~flags.https_port.some)
            tls == flags.https \/ flags.https_port.some
        IN /\ tasks.http.pc # "none" <=> plain
           /\ plain => /\ ~tasks.http.tls
                       /\ tasks.http.port =
                            SomePort(IF flags.http_port.some THEN flags.http_port.val ELSE 80)
           /\ tasks.https.pc # "none" <=> tls
           /\ tls => /\ tasks.https.tls
                     /\ tasks.https.port =
                          SomePort(IF flags.https_port.some THEN flags.https_port.val ELSE 443)

\* --http --https: a plain listener on 80 and a TLS listener on 443.
C17_Witness ==
    /\ flags = [http |-> TRUE, https |-> TRUE, http_port |-> NoPort, https_port |-> NoPort]
    /\ tasks.http.pc = "serving" /\ tasks.http.port = SomePort(80)
    /\ tasks.https.pc = "serving" /\ tasks.https.port = SomePort(443)

\* run awaited both listeners and has returned.
BothJoined ==
    /\ runPc = "returned"
    /\ runResult # "err:startup"
    /\ tasks.http.pc # "none"
    /\ tasks.https.pc # "none"

TaskFailed(l) == tasks[l].pc \in {"io_error", "panicked"}

\* C18 as claimed: with both listeners, run fails only if both listeners fail;
\* one failed and one ended normally is no error.
C18_FailsOnlyIfBothFail_Claimed ==
    BothJoined =>
        /\ runResult # "ok" => (TaskFailed("http") /\ TaskFailed("https"))
        /\ (TaskFailed("http") /\ tasks.https.pc = "ok") => runResult = "ok"
        /\ (TaskFailed("https") /\ tasks.http.pc = "ok") => runResult = "ok"

\* C18, amended: with both listeners, run returns an error whenever the TLS
\* listener failed or the plain listener panicked, also when the other one
\* ended normally; it returns Ok when both ended normally.
C18_SingleFailureFailsRun ==
    BothJoined =>
        /\ TaskFailed("https") => runResult # "ok"
        /\ tasks.http.pc = "panicked" => runResult = "err:join"
        /\ (tasks.http.pc = "ok" /\ tasks.https.pc = "ok") => runResult = "ok"
        /\ runResult # "ok" => (TaskFailed("http") \/ TaskFailed("https"))

\* The plain listener ended normally, the TLS listener with an I/O error: run
\* returned that error.
C18_Witness ==
    /\ BothJoined
    /\ tasks.http.pc = "ok"
    /\ tasks.https.pc = "io_error"
    /\ runResult = "err:io"

\* C19 as claimed: with both listeners, run returns only after both tasks have
\* completed, and then a failure of either, the plain listener's I/O error
\* included, is run's error.
C19_EitherFailureSurfaced_Claimed ==
    BothJoined =>
        /\ \A l \in Listeners : tasks[l].pc \in {"ok", "io_error", "panicked"}
        /\ (TaskFailed("http") \/ TaskFailed("https")) => runResult # "ok"

\* C20: once the handle is triggered every serving listener stops and run
\* returns; nothing, the handle and the return of run included, ends the
\* synchronizer, which after the return of run still comes to call update again.
C20_ShutdownStopsListeners ==
    /\ \A l \in Listeners :
          (handle = "shutdown" /\ tasks[l].pc = "serving") ~> (tasks[l].pc # "serving")
    /\ (handle = "shutdown" /\ runPc = "serving") ~> (runPc = "returned")
    /\ [][syncPc # "off" => syncPc' # "off"]_vars
    /\ (runPc = "returned" /\ syncPc = "sleep") ~> (runPc = "returned" /\ syncPc = "update")

\* Both listeners stopped on the handle, run returned Ok, and the synchronizer
\* is about to update again.
C20_Witness ==
    /\ handle = "shutdown"
    /\ tasks.http.pc = "ok" /\ tasks.https.pc = "ok"
    /\ runPc = "returned" /\ runResult = "ok"
    /\ syncPc = "update" /\ syncLast = "ok"

\* The values of the header name of a response.
HeaderValues(response, name) ==
    {response.headers[i][2] : i \in {j \in DOMAIN response.headers :
                                        response.headers[j][1] = name}}

\* C21: GET /content/{inscription-id} of a found inscription: with content
\* bytes the response is 200, its body exactly those bytes, its content type
\* the inscription's label or else application/octet-stream, and it carries a
\* content-security-policy header; without content bytes it is 404
\* "inscription {id} has no content", with or without a content type.
C21_Content ==
    \A r \in DOMAIN reqs :
        (/\ reqs[r].pc = "done"
         /\ reqs[r].route = "content"
         /\ reqs[r].answers = <<"some">>) =>
            LET i == reqs[r].insc
                id == Extract("content", reqs[r].segs).val
                response == reqs[r].response
            IN IF i.content.some
               THEN /\ response.status = 200
                    /\ response.body = i.content.val
                    /\ HeaderValues(response, "content-type") =
                          {IF i.content_type.some THEN i.content_type.val
                           ELSE <<"application/octet-stream">>}
                    /\ HeaderValues(response, "content-security-policy") # {}
               ELSE /\ reqs[r].out =
                          NotFound(<<"inscription ">> \o id \o <<" has no content">>)
                    /\ response.status = 404
                    /\ response.body = <<"inscription ">> \o id \o <<" has no content">>

\* Content bytes without a content type, served as application/octet-stream.
C21_Witness ==
    \E r \in DOMAIN reqs :
        /\ reqs[r].pc = "done"
        /\ reqs[r].route = "content"
        /\ reqs[r].insc = [content_type |-> None, content |-> Some(<<"\\x01", "\\x02", "\\x03">>)]
        /\ reqs[r].response.status = 200
        /\ reqs[r].response.body = <<"\\x01", "\\x02", "\\x03">>
        /\ HeaderValues(reqs[r].response, "content-type") = {<<"application/octet-stream">>}

\* C22: the ACME event-draining task only logs.  A step in which it takes an
\* error event logs the error and changes nothing else: the task goes on
\* draining, the listeners and run are as they were; the task has left its loop
\* only if the event stream has ended.
C22_AcmeTaskOnlyLogs ==
    /\ [][(acme'.events # acme.events /\ acme'.events[Len(acme'.events)] = "err") =>
            /\ acme'.pc = "draining"
            /\ acme'.log = Append(acme.log, "error")
            /\ tasks' = tasks
            /\ handle' = handle
            /\ runPc' = runPc
            /\ runResult' = runResult]_vars
    /\ [](acme.pc = "ended" => acme.stream = "ended")
    /\ []((runPc = "serving" /\ acme.pc # "none" /\ acme.stream = "open")
            => acme.pc = "draining")

\* After an error event the next event was still consumed, the TLS listener
\* served until the shutdown and run returned Ok.
C22_Witness ==
    /\ acme.events = <<"err", "ok">>
    /\ acme.log = <<"error", "info">>
    /\ tasks.https.pc = "ok"
    /\ runPc = "returned"
    /\ runResult = "ok"

\* C23: a search whose trimmed query is not exactly 64 hex characters makes no
\* facade call and ends with a redirect, whatever the index holds or answers;
\* a search whose trimmed query is 64 hex characters makes exactly one call,
\* the block-header probe.
C23_SearchProbesOnlyHashes ==
    \A r \in Slots :
        (Finished(r) /\ reqs[r].route \in SearchRoutes) =>
            LET t == Trim(reqs[r].segs[1]) IN
            IF Len(t) = HASH_LEN /\ IsHex(t)
            THEN reqs[r].calls = <<"block_header">>
            ELSE /\ reqs[r].calls = <<>>
                 /\ reqs[r].out.tag = "Redirect"
                 /\ reqs[r].response.status = 303

\* An outpoint-shaped query is redirected without a call, the index being
\* empty and flagged as reorged.
C23_Witness ==
    \E r \in Slots :
        /\ Finished(r)
        /\ reqs[r].route = "search_by_query"
        /\ Len(reqs[r].segs[1]) = HASH_LEN + 2
        /\ reqs[r].calls = <<>>
        /\ reqs[r].out.tag = "Redirect"
        /\ reorged

\* C24: the home view is built from at most the 100 latest blocks and the 8
\* latest inscriptions: it lists the hashes of the blocks the index returned,
\* in their order and never more than 100, and its status height last is the
\* height of the first returned block, or 0 with no starting sat when the
\* index returned no block.
C24_HomeView ==
    \A r \in Slots :
        (Finished(r) /\ reqs[r].route = "home" /\ reqs[r].response.status = 200) =>
            LET returned == IndexBlocks(IndexState, 100)
                latest == IF reqs[r].items[1] < 8 THEN reqs[r].items[1] ELSE 8
                view == [starting_sat |->
                            IF Len(returned) = 0 THEN None
                            ELSE Some(<<"starting sat of height ">>
                                      \o to_string(returned[1].height)),
                         last |-> IF Len(returned) = 0 THEN 0 ELSE returned[1].height,
                         blocks |-> [i \in 1..Len(returned) |-> returned[i].hash],
                         inscriptions |-> [i \in 1..latest |-> i]]
            IN /\ Len(view.blocks) <= 100
               /\ reqs[r].calls = <<"blocks", "get_latest_inscriptions", "has_satoshi_index">>
               /\ reqs[r].response.body = HomeHtml_display(view)

\* An index of 102 blocks and 9 inscriptions: the page lists 100 blocks from
\* height 101 down and 8 inscriptions.
C24_Witness ==
    \E r \in Slots :
        /\ Finished(r)
        /\ reqs[r].route = "home"
        /\ blockCount = 102
        /\ reqs[r].items[1] = 9
        /\ reqs[r].response.status = 200
        /\ reqs[r].response.body =
              HomeHtml_display(HomeHtml_new(IndexBlocks(IndexState, 100), <<1, 2, 3, 4, 5, 6, 7, 8>>))
        /\ SubSeq(reqs[r].response.body, 1, 14) =
              <<"HomeHtml inscriptions=", "8", " starting_sat=", "starting sat of height ",
                "1", "0", "1", " block=", "1", "0", "1", " <ol start=", "1", "0">>

\* C25: for every combination of the four listener flags at least one of
\* http_port() and https_port() is Some: run never reaches its (None, None)
\* arm, and once it is past its start at least one listener was spawned.
C25_SomeListener ==
    /\ http_port(flags).some \/ https_port(flags).some
    /\ runPc # "panicked"
    /\ Started => \E l \in Listeners : tasks[l].pc # "none"

\* Only --https-port is given: no plain listener, and the TLS listener serves.
C25_Witness ==
    /\ flags = [http |-> FALSE, https |-> FALSE, http_port |-> NoPort,
                https_port |-> SomePort(1000)]
    /\ runPc = "serving"
    /\ tasks.http.pc = "none"
    /\ tasks.https.pc = "serving"
    /\ tasks.https.port = SomePort(1000)

=============================================================================
